---- MODULE Spec2Model ----
(***************************************************************************)
(* A model of the prolly map mutation pipeline of dolt (go/store/prolly):  *)
(* the three-way merge (ThreeWayMerge, sendPatches, patchBuffer) and the   *)
(* MutableMap (Put, Get, Has, Map), the meta-values of the tree's nodes    *)
(* (newMetaValue, writeNewChild); of the TupleBuilder (go/store/val); of   *)
(* the ref map (go/store/datas); of the WriteSession and its TableWriters  *)
(* (sqle/dsess); and of the IndexSet (doltdb/durable). Each component has  *)
(* its own specification, in which the variables of the others stay as    *)
(* they start.                                                             *)
(*                                                                         *)
(* A key tuple is an integer of Keys (ordered as compareKeys orders the    *)
(* tuples), a value tuple is an element of Values, and Nil is the nil      *)
(* tuple. A Map is the ascending sequence of its <<key, value>> pairs: its *)
(* root is content-addressed, so the sequence stands for the root as well. *)
(***************************************************************************)
EXTENDS Integers, Sequences, FiniteSets, TLC

\* ------------------------------------------------------------------ bounds

\* The largest key of the maps that are merged.
MaxKey == 2

\* The largest key of the maps that are mutated.
MaxMutKey == 3

\* Capacity of the patch channel. The program makes the channel with
\* patchBufferSize = 1024; the model keeps the name and scales the number
\* down so that a full buffer is reached.
patchBufferSize == 1

\* The calls of the resolver that are counted for one key.
MaxCalls == 2

\* The values a byte takes: 256 in the program; the model scales the number
\* down and keeps the number of bytes of a count.
ByteRadix == 2

\* The nodes written before their parent is.
MaxChildren == 2

\* val.uint48Size, the `[6]byte` of newMetaValue.
uint48Size == 6

\* The fields of a metaValue.
metaValueCountIdx == 0
metaValueRefIdx == 1

\* The capacity of a MutableMap's overlay. The program declares
\* maxPending = 64 * 1024; the model keeps the name and scales the number down
\* so that Puts of more than maxPending keys happen.
maxPending == 2

\* The size of a TupleBuilder's buffer, [MaxTupleDataSize]byte, scaled down so
\* that Puts reach the end of the buffer.
MaxTupleDataSize == 3

\* The number of fields of the tuple descriptors, Desc.Count().
FieldCount == 2

\* The greatest of the reference names given to a ref map.
MaxRefName == 3

\* ------------------------------------------------------------- data model

Keys == 1..MaxKey

MutKeys == 1..MaxMutKey

Values == {1, 2}

\* The nil tuple (a nil key, a nil value, a tombstone).
Nil == 0

\* Map{}: the zero Map.
ZeroMap == <<>>

RECURSIVE PairsFrom(_, _, _)
\* The pairs of f (a function of 1..max, Nil where the key is absent) from key
\* k on, in ascending key order: what a chunker fed the sorted tuples builds.
PairsFrom(f, k, max) ==
    IF k > max THEN <<>>
    ELSE (IF f[k] # Nil THEN << <<k, f[k]>> >> ELSE <<>>) \o PairsFrom(f, k + 1, max)

\* The maps with keys up to max and values of vals.
MapsOver(max, vals) == { PairsFrom(f, 1, max) : f \in [1..max -> vals \cup {Nil}] }

\* The keys of a map.
KeysOf(m) == { m[i][1] : i \in 1..Len(m) }

\* The map of ascendingIntMap(t, 0): a chunker that was fed no pair.
EmptyMap == PairsFrom([k \in MutKeys |-> Nil], 1, MaxMutKey)

\* Map.Count
Count(m) == Len(m)

\* Map.Get: the pair passed to the callback, <<Nil, Nil>> when key is absent.
MapGet(m, key) ==
    LET hits == { i \in 1..Len(m) : m[i][1] = key }
    IN  IF hits = {} THEN <<Nil, Nil>> ELSE m[CHOOSE i \in hits : TRUE]

\* Map.Has
MapHas(m, key) == MapGet(m, key)[1] # Nil

\* The value of key in m, Nil when absent.
ValueOf(m, key) == MapGet(m, key)[2]

\* ------------------------------------------------------------ tree differ

DiffOf(key, from, to) ==
    [Key |-> key, From |-> from, To |-> to,
     Type |-> IF from = Nil THEN "added"
              ELSE IF to = Nil THEN "removed" ELSE "modified"]

\* Diff{}: the zero Diff.
ZeroDiff == [Key |-> Nil, From |-> Nil, To |-> Nil, Type |-> "none"]

RECURSIVE DiffWalk(_, _, _, _)
\* The differ's stream from position i of `from` and j of `to`: both are
\* walked in key order, equal pairs are skipped.
DiffWalk(from, i, to, j) ==
    IF i > Len(from) /\ j > Len(to) THEN <<>>
    ELSE IF j > Len(to) \/ (i <= Len(from) /\ from[i][1] < to[j][1])
         THEN <<DiffOf(from[i][1], from[i][2], Nil)>> \o DiffWalk(from, i + 1, to, j)
    ELSE IF i > Len(from) \/ to[j][1] < from[i][1]
         THEN <<DiffOf(to[j][1], Nil, to[j][2])>> \o DiffWalk(from, i, to, j + 1)
    ELSE IF from[i][2] = to[j][2]
         THEN DiffWalk(from, i + 1, to, j + 1)
    ELSE <<DiffOf(from[i][1], from[i][2], to[j][2])>> \o DiffWalk(from, i + 1, to, j + 1)

\* treeDifferFromMaps(ctx, from, to): the ordered stream of Diffs.
treeDifferFromMaps(from, to) == DiffWalk(from, 1, to, 1)

\* ------------------------------------------------------------ materializer

RECURSIVE MergeWalk(_, _, _, _)
\* The merge walk of the persistent tree m (from i) and the ascending edits
\* (from j): the pairs fed to the new chunker.
MergeWalk(m, i, edits, j) ==
    IF i > Len(m) /\ j > Len(edits) THEN <<>>
    ELSE IF j > Len(edits) \/ (i <= Len(m) /\ m[i][1] < edits[j][1])
         THEN <<m[i]>> \o MergeWalk(m, i + 1, edits, j)
    ELSE IF i > Len(m) \/ edits[j][1] < m[i][1]
         THEN (IF edits[j][2] # Nil THEN <<edits[j]>> ELSE <<>>)
              \o MergeWalk(m, i, edits, j + 1)
    ELSE (IF edits[j][2] # Nil THEN <<edits[j]>> ELSE <<>>)
         \o MergeWalk(m, i + 1, edits, j + 1)

\* Whether a stream of edits has strictly ascending keys.
Ascending(edits) == \A i \in 1..(Len(edits) - 1) : edits[i][1] < edits[i + 1][1]

\* A materializer that skips the tombstones of the stream.
Materialized_SkipsTombstones(m, edits) ==
    MergeWalk(m, 1, SelectSeq(edits, LAMBDA e : e[2] # Nil), 1)

\* The map materializeMutations builds from m and a whole stream of edits.
Materialized(m, edits) == MergeWalk(m, 1, edits, 1)

\* ------------------------------------------------------------------ state

VARIABLES
    base, left, right,  \* the Maps given to ThreeWayMerge
    cb,                 \* the TupleMergeFn given to ThreeWayMerge
    ld, rd,             \* the diff streams of treeDiffer l (base, left) and r (base, right)
    li, ri,             \* sendPatches: the position of `left` in ld and of `right` in rd
    lok, rok,           \* sendPatches: lok, rok
    spc,                \* sendPatches: the statement the sender task is at
    resolved,           \* sendPatches: the Diff the resolver returned, Diff{} before
    buf,                \* patchBuffer.buf: the patches in the channel
    closed,             \* patchBuffer.buf has been closed
    cancelled,          \* the caller cancelled the context given to ThreeWayMerge
    ctxDone,            \* the errgroup's context is done
    egErr,              \* the errgroup's first error
    sret,               \* what the sender task returned ("running" before)
    mret,               \* what the materializer task returned ("running" before)
    recv,               \* the patches the materializer has taken from the buffer
    final,              \* ThreeWayMerge: final, as the materializer task assigned it
    twm,                \* ThreeWayMerge: "running" or "returned"
    retMap, retErr,     \* what ThreeWayMerge returned
    storeFailed,        \* a node store operation has failed
    cancelEarly,        \* the caller cancelled before the materializer reached end-of-stream
    sent,               \* the patches sendPatch has put on the channel, in order
    cbCalls             \* how many times cb was called with the Diffs of each key,
                        \* counted up to MaxCalls

VARIABLES
    orig,               \* the Map that is mutated
    mut,                \* the MutableMap of orig.Mutate(): [live, m, overlay]
    mat,                \* the Map that mut.Map(ctx) returned for the edits staged: [done, m]
    stagedKeys,         \* the keys given to mut.Put
    stagedVal,          \* the value of the latest mut.Put of each key
    putErr              \* the error the latest mut.Put returned

VARIABLES
    hPairs,             \* the pairs to insert: the value of each key, Nil for no pair
    hMap,               \* the Map the successive materializations have built
    hMut,               \* the MutableMap of hMap.Mutate()
    hOrder,             \* the keys in the order their pairs were Put
    hBatches            \* the number of materializations

VARIABLES
    tb,                 \* the TupleBuilder: [Desc, pos, fields, buf]
    tbWritten,          \* the bytes Put to each field since the previous Build
    tbRes               \* the latest call on tb and what it gave

VARIABLES
    rm,                 \* the refmap: its entries
    rmLast,             \* the hash of the latest set of each name, ZeroHash if none
                        \* or if the name was deleted since
    rmGot,              \* the latest lookup on rm and the hash it returned
    rmStored            \* the bytes rm was serialized to and the refmap parsed
                        \* from them: [done, bytes, parsed]

VARIABLES
    wsEditors,          \* WriteSession.editors: the TableWriter of each table name
    wsRoot,             \* the root value the session's caller works on
    wsRet,              \* the latest call on the session and what it returned
    wsDetached          \* the TableWriter of each name that CloseEditors removed
                        \* from the session and a caller still holds: [held, closed]

VARIABLES
    tw,                 \* one TableWriter: [primary, indexes, closed], the rows
                        \* each of its writers holds and its signal
    twRet               \* the latest call on tw: [op, row, old, err, calls, failed],
                        \* calls being the writers it called, in order

twVars == <<tw, twRet>>

VARIABLES
    ixSet,              \* the IndexSet a caller holds: nomsIndexSet.indexes, the
                        \* target hash of the ref stored under each index name,
                        \* ZeroHash where the map has no entry
    ixRet               \* the latest call on ixSet and what it returned:
                        \* [op, name, hash, ok, set, got, err]

ixVars == <<ixSet, ixRet>>

VARIABLES
    mvChildren,         \* the meta-pairs of the nodes written and not yet put
                        \* under a parent
    mvRet               \* the latest newMetaValue or writeNewChild and what it
                        \* returned

mvVars == <<mvChildren, mvRet>>

mutVars == <<orig, mut, mat, stagedKeys, stagedVal, putErr>>

histVars == <<hPairs, hMap, hMut, hOrder, hBatches>>

\* The variables of the components other than the merge and the MutableMap
\* under test.
tbVars == <<tb, tbWritten, tbRes>>

rmVars == <<rm, rmLast, rmGot, rmStored>>

wsVars == <<wsEditors, wsRoot, wsRet, wsDetached>>

auxVars == <<histVars, tbVars, rmVars, wsVars, twVars, ixVars, mvVars>>

mergeVars == <<base, left, right, cb, ld, rd, li, ri, lok, rok, spc, resolved,
               buf, closed, cancelled, ctxDone, egErr, sret, mret, recv, final,
               twm, retMap, retErr, storeFailed, cancelEarly, sent, cbCalls>>

vars == <<mergeVars, mutVars, auxVars>>

\* No MutableMap is in use.
NoMutableMap ==
    /\ orig = ZeroMap
    /\ mut = [live |-> FALSE, m |-> ZeroMap, overlay |-> <<>>]
    /\ mat = [done |-> FALSE, m |-> ZeroMap]
    /\ stagedKeys = {}
    /\ stagedVal = [k \in MutKeys |-> Nil]
    /\ putErr = "nil"

\* No map is being built by successive insertions.
NoHistory ==
    /\ hPairs = [k \in MutKeys |-> Nil]
    /\ hMap = ZeroMap
    /\ hMut = [live |-> FALSE, m |-> ZeroMap, overlay |-> <<>>]
    /\ hOrder = <<>>
    /\ hBatches = 0

\* A nil []byte, and the slice buf[lo : hi] of a TupleBuilder's buffer.
NilSlice == [set |-> FALSE, lo |-> 0, hi |-> 0]
Slice(lo, hi) == [set |-> TRUE, lo |-> lo, hi |-> hi]

\* The fields of a tuple descriptor.
Fields == 1..FieldCount

\* A field of a Tuple: NULL, or the bytes it holds.
NullField == [null |-> TRUE, bytes |-> <<>>]
FieldOf(bytes) == [null |-> FALSE, bytes |-> bytes]

\* The Tuple of NULL fields, which stands for "no tuple" as well.
NullTuple == [i \in Fields |-> NullField]

\* NewTupleBuilder(desc): desc[i] is Desc.Types[i].Nullable.
NewTupleBuilder(desc) ==
    [Desc |-> desc,
     pos |-> 0,
     fields |-> [i \in Fields |-> NilSlice],
     buf |-> [j \in 1..MaxTupleDataSize |-> 0]]

\* No call was made on the TupleBuilder.
NoCall == [op |-> "none", at |-> 0, size |-> 0, panic |-> FALSE,
           tup |-> NullTuple, written |-> NullTuple]

\* No TupleBuilder is in use.
NoBuilder ==
    /\ tb = NewTupleBuilder([i \in Fields |-> TRUE])
    /\ tbWritten = NullTuple
    /\ tbRes = NoCall

\* hash.Hash{}: the zero hash.
ZeroHash == 0

\* The reference names, ordered as the strings are, and the hashes set.
RefNames == 1..MaxRefName
Hashes == {1, 2}

NoLookup == [done |-> FALSE, name |-> 0, addr |-> ZeroHash]
NotStored == [done |-> FALSE, bytes |-> <<>>, parsed |-> <<>>]

\* var rm refmap
NoRefMap ==
    /\ rm = <<>>
    /\ rmLast = [n \in RefNames |-> ZeroHash]
    /\ rmGot = NoLookup
    /\ rmStored = NotStored

\* The names of the tables, the names of their secondary indexes, their
\* schemas, their rows and their auto-increment values.
TableNames == {"t1", "t2"}
Indexes == {"idx"}
Schemas == {1, 2}
Rows == {1}
AutoValues == {1, 2}

\* A nil *doltdb.Table, and the table every root starts with.
NoTable == [schema |-> 0, rows |-> {}, indexes |-> [i \in Indexes |-> {}], auto |-> 0]
FirstTable == [NoTable EXCEPT !.schema = 1, !.auto = 1]

\* A nil *doltdb.RootValue.
NilRoot == [n \in TableNames |-> NoTable]

\* No entry in WriteSession.editors: TableWriter{}.
NoEditor == [open |-> FALSE, src |-> NoTable, rows |-> {},
             indexes |-> [i \in Indexes |-> {}], auto |-> 0, closed |-> FALSE]

NoSessionCall == [op |-> "none", name |-> "", tbl |-> NoTable, was |-> NoEditor,
                  root |-> NilRoot, err |-> "nil", names |-> {}, failed |-> {}]

\* No TableWriter of the name is held outside the session.
NotHeld == [held |-> FALSE, closed |-> FALSE]

\* NewWriteSession(): no editor is open.
NoSession ==
    /\ wsEditors = [n \in TableNames |-> NoEditor]
    /\ wsRoot = [n \in TableNames |-> FirstTable]
    /\ wsRet = NoSessionCall
    /\ wsDetached = [n \in TableNames |-> NotHeld]

\* The index writers of the TableWriter under test and the rows written.
WriterIndexes == {"a", "b"}
WriterRows == {1, 2}

NoWriterCall == [op |-> "none", row |-> 0, old |-> 0, err |-> "nil",
                 calls |-> <<>>, failed |-> "none"]

\* newTableEditor: empty writers, closed: false, no call made yet.
NoWriter ==
    /\ tw = [primary |-> {}, indexes |-> [i \in WriterIndexes |-> {}],
             closed |-> FALSE]
    /\ twRet = NoWriterCall

\* The index names of the IndexSet under test and the hashes of the indexes
\* put into it.
IndexNames == {"i1", "i2"}
IndexHashes == {1, 2}

\* NewIndexSet: the empty types.Map.
EmptyIndexSet == [n \in IndexNames |-> ZeroHash]

NoIndexCall == [op |-> "none", name |-> "", hash |-> ZeroHash, ok |-> FALSE,
                set |-> EmptyIndexSet, got |-> ZeroHash, err |-> "nil"]

NoIndexSet ==
    /\ ixSet = EmptyIndexSet
    /\ ixRet = NoIndexCall

\* nodePair{}: the zero pair, and the record of "no call yet".
ZeroPair == <<Nil, <<>>>>

NoMetaCall == [op |-> "none", count |-> 0, ref |-> ZeroHash, mt |-> <<>>,
               level |-> 0, items |-> <<>>, cnt |-> 0, pair |-> ZeroPair,
               err |-> "nil"]

NoMeta ==
    /\ mvChildren = <<>>
    /\ mvRet = NoMetaCall

\* The resolvers the merge is run with: one that reports a conflict, one that
\* takes left's diff and one that takes right's.
Resolvers == {"conflict", "left", "right"}

\* The start of ThreeWayMerge(ctx, b, l, r, c).
MergeStart(b, l, r, c) ==
    /\ base = b
    /\ left = l
    /\ right = r
    /\ cb = c
    /\ ld = treeDifferFromMaps(base, left)
    /\ rd = treeDifferFromMaps(base, right)
    /\ li = 0 /\ ri = 0
    /\ lok = TRUE /\ rok = TRUE
    /\ spc = "start"
    /\ resolved = ZeroDiff
    /\ buf = <<>>
    /\ closed = FALSE
    /\ cancelled = FALSE
    /\ ctxDone = FALSE
    /\ egErr = "nil"
    /\ sret = "running"
    /\ mret = "running"
    /\ recv = <<>>
    /\ final = ZeroMap
    /\ twm = "running"
    /\ retMap = ZeroMap
    /\ retErr = "nil"
    /\ storeFailed = FALSE
    /\ cancelEarly = FALSE
    /\ sent = <<>>
    /\ cbCalls = [k \in Keys |-> 0]

\* Values are compared for equality only, so the base map draws its values
\* from one of them and left and right from both.
InitMerge ==
    /\ \E b \in MapsOver(MaxKey, {1}), l, r \in MapsOver(MaxKey, Values), c \in Resolvers :
          MergeStart(b, l, r, c)
    /\ NoMutableMap
    /\ NoHistory
    /\ NoBuilder
    /\ NoRefMap
    /\ NoSession
    /\ NoMeta
    /\ NoIndexSet
    /\ NoWriter

\* ---------------------------------------------------------- three-way merge

\* sendPatches: the Diffs `left` and `right` hold.
LeftDiff == ld[li]
RightDiff == rd[ri]

compareDiffKeys(l, r) == l.Key - r.Key

equalDiffVals(l, r) == l.Type = r.Type /\ l.To = r.To

\* The TupleMergeFn cb applied to the Diffs of one key.
Resolve(l, r) ==
    CASE cb = "conflict" -> [diff |-> l, ok |-> FALSE]
      [] cb = "left"     -> [diff |-> l, ok |-> TRUE]
      [] cb = "right"    -> [diff |-> r, ok |-> TRUE]

\* The conflicts ThreeWayMerge reports: it returns (final, err) alone, and
\* sendPatches drops the ok = false of the resolver without recording it.
ReportedConflicts == {}

\* eg.Go: a task that returns a non-nil error sets the group's error, once,
\* and cancels the group's context.
GroupSees(err) ==
    /\ egErr' = IF err # "nil" /\ egErr = "nil" THEN err ELSE egErr
    /\ ctxDone' = (ctxDone \/ err # "nil")

\* The sender task returns err: the deferred buf.close() runs, then eg.Go
\* sees the error.
SenderReturn(err) ==
    /\ spc' = "returned"
    /\ sret' = err
    /\ closed' = TRUE
    /\ GroupSees(err)

senderFrame == <<base, left, right, cb, ld, rd, cancelled, mret, recv,
                 final, twm, retMap, retErr, cancelEarly, mutVars, auxVars>>

\* The statements of sendPatches that call buf.sendPatch.
SendPcs == {"send", "sendResolved", "sendDrain"}

\* sendPatch on a channel that takes a patch whatever it holds.
sendPatch_NoBackpressure(diff, after) ==
    \/ /\ ctxDone
       /\ SenderReturn("canceled")
       /\ UNCHANGED <<buf, sent>>
    \/ /\ buf' = Append(buf, <<diff.Key, diff.To>>)
 /\ sent' = Append(sent, <<diff.Key, diff.To>>)
       /\ spc' = after
       /\ UNCHANGED <<sret, closed, egErr, ctxDone>>

\* sendPatch without the case <-ctx.Done().
sendPatch_IgnoresContext(diff, after) ==
    /\ Len(buf) < patchBufferSize
    /\ buf' = Append(buf, <<diff.Key, diff.To>>)
    /\ sent' = Append(sent, <<diff.Key, diff.To>>)
    /\ spc' = after
    /\ UNCHANGED <<sret, closed, egErr, ctxDone>>

\* patchBuffer.sendPatch, and the caller's `if err != nil { return err }`:
\* the select takes either case that is ready.
sendPatch(diff, after) ==
    \/ /\ ctxDone
       /\ SenderReturn("canceled")
       /\ UNCHANGED <<buf, sent>>
    \/ /\ Len(buf) < patchBufferSize
       /\ buf' = Append(buf, <<diff.Key, diff.To>>)
       /\ sent' = Append(sent, <<diff.Key, diff.To>>)
       /\ spc' = after
       /\ UNCHANGED <<sret, closed, egErr, ctxDone>>

\* left, err = l.Next(ctx); right, err = r.Next(ctx)
S_Start ==
    /\ spc = "start"
    /\ li' = 1 /\ lok' = (1 <= Len(ld))
    /\ ri' = 1 /\ rok' = (1 <= Len(rd))
    /\ spc' = "loop"
    /\ UNCHANGED <<resolved, buf, sent, closed, ctxDone, egErr, sret, storeFailed>>
    /\ UNCHANGED cbCalls
    /\ UNCHANGED senderFrame

\* for lok && rok
S_Loop ==
    /\ spc = "loop"
    /\ spc' = IF lok /\ rok THEN "switch" ELSE "drainL"
    /\ UNCHANGED <<li, ri, lok, rok, resolved, buf, sent, closed, ctxDone, egErr, sret,
                   storeFailed>>
    /\ UNCHANGED cbCalls
    /\ UNCHANGED senderFrame

\* cmp := compareDiffKeys(left, right, l.cmp); switch
S_Switch ==
    /\ spc = "switch"
    /\ LET cmp == compareDiffKeys(LeftDiff, RightDiff)
           res == Resolve(LeftDiff, RightDiff)
           called == [cbCalls EXCEPT ![LeftDiff.Key] =
                         IF @ < MaxCalls THEN @ + 1 ELSE @]
       IN  \/ /\ cmp < 0
              /\ spc' = "nextL"
              /\ UNCHANGED <<resolved, cbCalls>>
           \/ /\ cmp > 0
              /\ spc' = "send"
              /\ UNCHANGED <<resolved, cbCalls>>
           \/ /\ cmp = 0
              /\ equalDiffVals(LeftDiff, RightDiff)
              /\ spc' = "loop"
              /\ UNCHANGED <<resolved, cbCalls>>
           \/ /\ cmp = 0
              /\ ~equalDiffVals(LeftDiff, RightDiff)
              /\ res.ok
              /\ resolved' = res.diff
              /\ cbCalls' = called
              /\ spc' = "sendResolved"
           \/ /\ cmp = 0
              /\ ~equalDiffVals(LeftDiff, RightDiff)
              /\ ~res.ok
              /\ cbCalls' = called
              /\ spc' = "loop"
              /\ UNCHANGED resolved
    /\ UNCHANGED <<li, ri, lok, rok, buf, sent, closed, ctxDone, egErr, sret, storeFailed>>
    /\ UNCHANGED senderFrame

\* case cmp < 0: left, err = l.Next(ctx)
S_NextL ==
    /\ spc = "nextL"
    /\ li' = li + 1 /\ lok' = (li + 1 <= Len(ld))
    /\ spc' = "loop"
    /\ UNCHANGED <<ri, rok, resolved, buf, sent, closed, ctxDone, egErr, sret, storeFailed>>
    /\ UNCHANGED cbCalls
    /\ UNCHANGED senderFrame

\* case cmp > 0: err = buf.sendPatch(ctx, right)
S_Send ==
    /\ spc = "send"
    /\ sendPatch(RightDiff, "nextR")
    /\ UNCHANGED <<li, ri, lok, rok, resolved, storeFailed>>
    /\ UNCHANGED cbCalls
    /\ UNCHANGED senderFrame

\* case cmp > 0: right, err = r.Next(ctx)
S_NextR ==
    /\ spc = "nextR"
    /\ ri' = ri + 1 /\ rok' = (ri + 1 <= Len(rd))
    /\ spc' = "loop"
    /\ UNCHANGED <<li, lok, resolved, buf, sent, closed, ctxDone, egErr, sret, storeFailed>>
    /\ UNCHANGED cbCalls
    /\ UNCHANGED senderFrame

\* case cmp == 0, ok: err = buf.sendPatch(ctx, resolved)
S_SendResolved ==
    /\ spc = "sendResolved"
    /\ sendPatch(resolved, "loop")
    /\ UNCHANGED <<li, ri, lok, rok, resolved, storeFailed>>
    /\ UNCHANGED cbCalls
    /\ UNCHANGED senderFrame

\* for lok { break }
S_DrainL ==
    /\ spc = "drainL"
    /\ spc' = "drainR"
    /\ UNCHANGED <<li, ri, lok, rok, resolved, buf, sent, closed, ctxDone, egErr, sret,
                   storeFailed>>
    /\ UNCHANGED cbCalls
    /\ UNCHANGED senderFrame

\* for rok; return nil
S_DrainR ==
    /\ spc = "drainR"
    /\ \/ /\ rok
          /\ spc' = "sendDrain"
          /\ UNCHANGED <<closed, ctxDone, egErr, sret>>
       \/ /\ ~rok
          /\ SenderReturn("nil")
    /\ UNCHANGED <<li, ri, lok, rok, resolved, buf, sent, storeFailed>>
    /\ UNCHANGED cbCalls
    /\ UNCHANGED senderFrame

\* for rok: err = buf.sendPatch(ctx, right)
S_SendDrain ==
    /\ spc = "sendDrain"
    /\ sendPatch(RightDiff, "nextRDrain")
    /\ UNCHANGED <<li, ri, lok, rok, resolved, storeFailed>>
    /\ UNCHANGED cbCalls
    /\ UNCHANGED senderFrame

\* for rok: right, err = r.Next(ctx)
S_NextRDrain ==
    /\ spc = "nextRDrain"
    /\ ri' = ri + 1 /\ rok' = (ri + 1 <= Len(rd))
    /\ spc' = "drainR"
    /\ UNCHANGED <<li, lok, resolved, buf, sent, closed, ctxDone, egErr, sret, storeFailed>>
    /\ UNCHANGED cbCalls
    /\ UNCHANGED senderFrame

\* A Next of a treeDiffer fails with an error other than io.EOF (the node
\* store fails): `if err != nil { return err }`.
S_NextFails ==
    /\ spc \in {"start", "nextL", "nextR", "nextRDrain"}
    /\ SenderReturn("store")
    /\ storeFailed' = TRUE
    /\ UNCHANGED <<li, ri, lok, rok, resolved, buf, sent>>
    /\ UNCHANGED cbCalls
    /\ UNCHANGED senderFrame

\* The steps of the sender task in which no node store operation fails.
SenderStep ==
    \/ S_Start \/ S_Loop \/ S_Switch \/ S_NextL \/ S_Send \/ S_NextR
    \/ S_SendResolved \/ S_DrainL \/ S_DrainR \/ S_SendDrain \/ S_NextRDrain

\* A nextMutation that reports the end of the stream as soon as the channel
\* is closed, whatever it still holds.
nextMutation_DropsOnClose ==
    (IF buf # <<>> /\ ~closed THEN {Head(buf)} ELSE {})
    \cup (IF closed THEN {<<Nil, Nil>>} ELSE {})
    \cup (IF ctxDone THEN {<<Nil, Nil>>} ELSE {})

\* patchBuffer.nextMutation: the results the select can give. A receive from
\* the closed, empty channel gives the zero patch, the pair of nil tuples.
nextMutation ==
    (IF buf # <<>> THEN {Head(buf)} ELSE {})
    \cup (IF buf = <<>> /\ closed THEN {<<Nil, Nil>>} ELSE {})
    \cup (IF ctxDone THEN {<<Nil, Nil>>} ELSE {})

\* The materializer task returns (m, err): final, err = ...; return err.
MaterializerReturn(m, err) ==
    /\ final' = m
    /\ mret' = err
    /\ GroupSees(err)

materializerFrame == <<base, left, right, cb, ld, rd, li, ri, lok, rok, spc,
                       resolved, closed, cancelled, sret, twm, retMap, retErr,
                       cancelEarly, sent, cbCalls,
                       mutVars, auxVars>>

\* materializeMutations(ctx, left, buf), one mutation at a time: a nil key
\* ends the stream, and the materializer then reports the cancellation cause
\* if the context is done; a key that does not ascend fails.
M_Next ==
    /\ mret = "running"
    /\ \E p \in nextMutation :
         IF p[1] = Nil
         THEN /\ IF ctxDone
                 THEN MaterializerReturn(ZeroMap, "canceled")
                 ELSE MaterializerReturn(Materialized(left, recv), "nil")
              /\ UNCHANGED <<buf, recv>>
         ELSE /\ buf' = Tail(buf)
              /\ recv' = Append(recv, p)
              /\ IF recv # <<>> /\ ~(recv[Len(recv)][1] < p[1])
                 THEN MaterializerReturn(ZeroMap, "invariant")
                 ELSE UNCHANGED <<final, mret, egErr, ctxDone>>
    /\ UNCHANGED storeFailed
    /\ UNCHANGED materializerFrame

\* A node store operation of the materializer fails.
M_StoreFails ==
    /\ mret = "running"
    /\ MaterializerReturn(ZeroMap, "store")
    /\ storeFailed' = TRUE
    /\ UNCHANGED <<buf, recv>>
    /\ UNCHANGED materializerFrame

\* eg.Wait() with its error dropped: return final, nil
Wait_IgnoresError ==
    /\ twm = "running"
    /\ sret # "running" /\ mret # "running"
    /\ twm' = "returned"
    /\ retErr' = "nil"
    /\ retMap' = final
    /\ ctxDone' = TRUE
    /\ UNCHANGED <<base, left, right, cb, ld, rd, li, ri, lok, rok, spc, resolved,
                   buf, closed, cancelled, egErr, sret, mret, recv, final,
                   storeFailed, cancelEarly, sent, cbCalls,
                       mutVars, auxVars>>

\* if err = eg.Wait(); err != nil { return Map{}, err }; return final, nil
Wait ==
    /\ twm = "running"
    /\ sret # "running" /\ mret # "running"
    /\ twm' = "returned"
    /\ retErr' = egErr
    /\ retMap' = IF egErr # "nil" THEN ZeroMap ELSE final
    /\ ctxDone' = TRUE
    /\ UNCHANGED <<base, left, right, cb, ld, rd, li, ri, lok, rok, spc, resolved,
                   buf, closed, cancelled, egErr, sret, mret, recv, final,
                   storeFailed, cancelEarly, sent, cbCalls,
                       mutVars, auxVars>>

\* The caller cancels the context it gave to ThreeWayMerge, of which the
\* group's context is a child.
Cancel ==
    /\ twm = "running"
    /\ ~cancelled
    /\ cancelled' = TRUE
    /\ ctxDone' = TRUE
    /\ cancelEarly' = ~(sret # "running" /\ buf = <<>>)
    /\ UNCHANGED <<base, left, right, cb, ld, rd, li, ri, lok, rok, spc, resolved,
                   buf, closed, egErr, sret, mret, recv, final, twm, retMap,
                   retErr, storeFailed, sent, cbCalls, mutVars, auxVars>>

NextMerge ==
    \/ SenderStep
    \/ S_NextFails
    \/ M_Next
    \/ M_StoreFails
    \/ Wait
    \/ Cancel

SpecMerge == InitMerge /\ [][NextMerge]_vars

\* The Go scheduler runs every task that can take a step; a node store
\* failure and the caller's cancellation are never bound to happen.
FairMerge ==
    /\ InitMerge
    /\ [][NextMerge]_vars
    /\ WF_vars(SenderStep)
    /\ WF_vars(M_Next)
    /\ WF_vars(Wait)

\* --------------------------------------------------------------- MutableMap

\* A Put that keeps the entry a key already has.
memPut_KeepsFirst(list, key, value) ==
    LET below == SelectSeq(list, LAMBDA e : e[1] < key)
        same == SelectSeq(list, LAMBDA e : e[1] = key)
        above == SelectSeq(list, LAMBDA e : e[1] > key)
    IN  below \o (IF same = <<>> THEN << <<key, value>> >> ELSE same) \o above

\* memoryMap.Put: the skip list keeps one entry per key, in key order; a nil
\* value is kept as a tombstone.
memPut(list, key, value) ==
    LET below == SelectSeq(list, LAMBDA e : e[1] < key)
        above == SelectSeq(list, LAMBDA e : e[1] > key)
    IN  below \o << <<key, value>> >> \o above

\* skip.List.Get: (value, ok)
memGet(list, key) ==
    LET hits == { i \in 1..Len(list) : list[i][1] = key }
    IN  IF hits = {} THEN [value |-> Nil, ok |-> FALSE]
        ELSE [value |-> list[CHOOSE i \in hits : TRUE][2], ok |-> TRUE]

\* memoryMap.mutations: the entries in key order.
mutations(list) == list

newMutableMap(m) == [live |-> TRUE, m |-> m, overlay |-> <<>>]

\* Map that materializes no mutation.
MutMap_ReturnsBase(mm) == mm.m

\* MutableMap.Map
MutMap(mm) == Materialized(mm.m, mutations(mm.overlay))

\* Put that also applies the edit to the base map.
MutPut_WritesBase(mm, key, value) ==
    [mm EXCEPT !.overlay = memPut(@, key, value),
               !.m = Materialized(@, << <<key, value>> >>)]

\* Put that appends to the overlay instead of going through the ordered
\* overlay.Put.
MutPut_Unordered(mm, key, value) ==
    [mm EXCEPT !.overlay = Append(@, <<key, value>>)]

\* MutableMap.Put
MutPut(mm, key, value) == [mm EXCEPT !.overlay = memPut(@, key, value)]

\* MutableMap.Put: the error returned, `return nil` whatever the overlay
\* holds.
MutPutErr(mm, key, value) == "nil"

\* Get without `key = nil` for a pending delete.
MutGet_KeepsKey(mm, key) ==
    LET got == memGet(mm.overlay, key)
    IN  IF got.ok THEN <<key, got.value>> ELSE MapGet(mm.m, key)

\* MutableMap.Get: the pair passed to cb.
MutGet(mm, key) ==
    LET got == memGet(mm.overlay, key)
    IN  IF got.ok
        THEN <<IF got.value = Nil THEN Nil ELSE key, got.value>>
        ELSE MapGet(mm.m, key)

\* MutableMap.Has: ok = key != nil, of the pair Get passes to the callback.
MutHas(mm, key) == MutGet(mm, key)[1] # Nil

mutFrame == <<mergeVars, auxVars>>

\* mut := orig.Mutate()
Mutate ==
    /\ mut' = newMutableMap(orig)
    /\ mat' = [done |-> FALSE, m |-> ZeroMap]
    /\ stagedKeys' = {}
    /\ stagedVal' = [k \in MutKeys |-> Nil]
    /\ putErr' = "nil"
    /\ UNCHANGED orig
    /\ UNCHANGED mutFrame

\* mut.Put(ctx, key, value); a nil value stages a delete.
Put(key, value) ==
    /\ mut.live
    /\ mut' = MutPut(mut, key, value)
    /\ mat' = [done |-> FALSE, m |-> ZeroMap]
    /\ stagedKeys' = stagedKeys \cup {key}
    /\ stagedVal' = [stagedVal EXCEPT ![key] = value]
    /\ putErr' = MutPutErr(mut, key, value)
    /\ UNCHANGED orig
    /\ UNCHANGED mutFrame

\* m, err := mut.Map(ctx)
Materialize ==
    /\ mut.live
    /\ mat' = [done |-> TRUE, m |-> MutMap(mut)]
    /\ UNCHANGED <<orig, mut, stagedKeys, stagedVal, putErr>>
    /\ UNCHANGED mutFrame

InitMut ==
    /\ MergeStart(ZeroMap, ZeroMap, ZeroMap, "conflict")
    /\ orig \in MapsOver(MaxMutKey, Values)
    /\ mut = [live |-> FALSE, m |-> ZeroMap, overlay |-> <<>>]
    /\ mat = [done |-> FALSE, m |-> ZeroMap]
    /\ stagedKeys = {}
    /\ stagedVal = [k \in MutKeys |-> Nil]
    /\ putErr = "nil"
    /\ NoHistory
    /\ NoBuilder
    /\ NoRefMap
    /\ NoSession
    /\ NoMeta
    /\ NoIndexSet
    /\ NoWriter

NextMut ==
    \/ Mutate
    \/ \E key \in MutKeys, value \in Values \cup {Nil} : Put(key, value)
    \/ Materialize

SpecMut == InitMut /\ [][NextMut]_vars

\* ------------------------------------------- successive Put + materialize

histFrame == <<mergeVars, mutVars, tbVars, rmVars, wsVars, twVars, ixVars, mvVars>>

\* hMut.Put(ctx, key, value) of a pair that was not inserted yet.
H_Put(key) ==
    /\ key \notin KeysOf(hOrder)
    /\ hPairs[key] # Nil
    /\ hMut' = MutPut(hMut, key, hPairs[key])
    /\ hOrder' = Append(hOrder, <<key, hPairs[key]>>)
    /\ UNCHANGED <<hPairs, hMap, hBatches>>
    /\ UNCHANGED histFrame

\* hMap, err = hMut.Map(ctx); hMut = hMap.Mutate(): one step of insertion
\* ends and the next begins on the map it built.
H_Materialize ==
    /\ hMut.overlay # <<>>
    /\ hMap' = MutMap(hMut)
    /\ hMut' = newMutableMap(MutMap(hMut))
    /\ hBatches' = hBatches + 1
    /\ UNCHANGED <<hPairs, hOrder>>
    /\ UNCHANGED histFrame

InitHist ==
    /\ MergeStart(ZeroMap, ZeroMap, ZeroMap, "conflict")
    /\ NoMutableMap
    /\ hPairs \in [MutKeys -> Values \cup {Nil}]
    /\ hMap = EmptyMap
    /\ hMut = newMutableMap(EmptyMap)
    /\ hOrder = <<>>
    /\ hBatches = 0
    /\ NoBuilder
    /\ NoRefMap
    /\ NoSession
    /\ NoMeta
    /\ NoIndexSet
    /\ NoWriter

NextHist ==
    \/ \E key \in MutKeys : H_Put(key)
    \/ H_Materialize

SpecHist == InitHist /\ [][NextHist]_vars

\* ------------------------------------------------------------ TupleBuilder

\* The bytes the Puts write.
Bytes == {1, 2}

\* The sizes of the values Put: a fixed-width value (int8Size, int16Size) or
\* the len(v) of a string.
Sizes == {1, 2}

\* The bytes of the slice sl of the buffer data.
SliceBytes(data, sl) == [j \in 1..(sl.hi - sl.lo) |-> data[sl.lo + j]]

\* NewTuple(pool, values...): a copy of the bytes of each value, NULL for a
\* nil value.
NewTuple(data, values) ==
    [i \in Fields |-> IF values[i].set THEN FieldOf(SliceBytes(data, values[i]))
                                        ELSE NullField]

\* TupleBuilder.Recycle: tb.pos = 0
Recycle(b) == [b EXCEPT !.pos = 0]

\* TupleBuilder.Build: the panic of a nil non-nullable field.
BuildPanics(b) == \E i \in Fields : ~b.Desc[i] /\ ~b.fields[i].set

\* TupleBuilder.Build: values := tb.fields[:tb.Desc.Count()]; NewTuple
BuildTuple(b) == NewTuple(b.buf, b.fields)

\* A slice expression that fails on no bounds.
PutPanics_Never(b, sz) == FALSE

\* tb.buf[tb.pos : tb.pos+sz] panics when tb.pos+sz is past the array.
PutPanics(b, sz) == b.pos + sz > MaxTupleDataSize

\* TupleBuilder.PutBytes, PutString and the fixed-width Puts: the field is
\* the slice at pos, v is written to it sz times, pos moves past it.
PutBytes(b, i, v, sz) ==
    [b EXCEPT !.fields[i] = Slice(b.pos, b.pos + sz),
              !.buf = [j \in 1..MaxTupleDataSize |->
                          IF b.pos < j /\ j <= b.pos + sz THEN v ELSE b.buf[j]],
              !.pos = b.pos + sz]

tbFrame == <<mergeVars, mutVars, histVars, rmVars, wsVars, twVars, ixVars, mvVars>>

\* tb.PutBytes(i, v) with len(v) = sz
TB_Put(i, v, sz) ==
    /\ IF PutPanics(tb, sz)
       THEN /\ tbRes' = [NoCall EXCEPT !.op = "put", !.at = tb.pos, !.size = sz,
                                       !.panic = TRUE]
            /\ UNCHANGED <<tb, tbWritten>>
       ELSE /\ tb' = PutBytes(tb, i, v, sz)
            /\ tbWritten' = [tbWritten EXCEPT ![i] = FieldOf([j \in 1..sz |-> v])]
            /\ tbRes' = [NoCall EXCEPT !.op = "put", !.at = tb.pos, !.size = sz]
    /\ UNCHANGED tbFrame

\* tup = tb.Build(pool)
TB_Build ==
    /\ IF BuildPanics(tb)
       THEN /\ tbRes' = [NoCall EXCEPT !.op = "build", !.at = tb.pos, !.panic = TRUE,
                                       !.written = tbWritten]
            /\ UNCHANGED <<tb, tbWritten>>
       ELSE /\ tb' = Recycle(tb)
            /\ tbWritten' = NullTuple
            /\ tbRes' = [NoCall EXCEPT !.op = "build", !.at = tb.pos,
                                       !.tup = BuildTuple(tb), !.written = tbWritten]
    /\ UNCHANGED tbFrame

InitBuilder ==
    /\ MergeStart(ZeroMap, ZeroMap, ZeroMap, "conflict")
    /\ NoMutableMap
    /\ NoHistory
    /\ NoRefMap
    /\ NoSession
    /\ NoMeta
    /\ NoIndexSet
    /\ NoWriter
    /\ \E desc \in [Fields -> BOOLEAN] : tb = NewTupleBuilder(desc)
    /\ tbWritten = NullTuple
    /\ tbRes = NoCall

NextBuilder ==
    \/ \E i \in Fields, v \in Bytes, sz \in Sizes : TB_Put(i, v, sz)
    \/ TB_Build

SpecBuilder == InitBuilder /\ [][NextBuilder]_vars

\* ----------------------------------------------------------------- ref map

\* An entry of a refmap.
Entry(name, addr) == [name |-> name, addr |-> addr]

\* The positions of name in the entries.
EntriesOf(entries, name) == { i \in 1..Len(entries) : entries[i].name = name }

\* refmap.lookup: the hash of name, the zero hash when it has no entry.
rmLookup(entries, name) ==
    IF EntriesOf(entries, name) = {} THEN ZeroHash
    ELSE entries[CHOOSE i \in EntriesOf(entries, name) : TRUE].addr

\* set that adds the entry at the end.
rmSet_Appends(entries, name, addr) ==
    Append(SelectSeq(entries, LAMBDA e : e.name # name), Entry(name, addr))

\* refmap.set: the entry of name is replaced, or added where the order of
\* names puts it.
rmSet(entries, name, addr) ==
    SelectSeq(entries, LAMBDA e : e.name < name)
        \o <<Entry(name, addr)>>
        \o SelectSeq(entries, LAMBDA e : e.name > name)

\* delete that removes the entries up to name.
rmDelete_Prefix(entries, name) == SelectSeq(entries, LAMBDA e : e.name > name)

\* refmap.delete: the entry of name is removed.
rmDelete(entries, name) == SelectSeq(entries, LAMBDA e : e.name # name)

RECURSIVE EntryBytes(_, _)
\* The entries from position i on, as bytes: the name then the hash of each.
EntryBytes(entries, i) ==
    IF i > Len(entries) THEN <<>>
    ELSE <<entries[i].name, entries[i].addr>> \o EntryBytes(entries, i + 1)

\* refmap.storeroot_flatbuffer: the length, then the entries in their order.
storeroot_flatbuffer(entries) == <<Len(entries)>> \o EntryBytes(entries, 1)

\* parse_storeroot: the entries read back from the bytes.
parse_storeroot(bytes) ==
    [i \in 1..bytes[1] |-> Entry(bytes[2 * i], bytes[2 * i + 1])]

rmFrame == <<mergeVars, mutVars, histVars, tbVars, wsVars, twVars, ixVars, mvVars>>

\* rm.set(name, addr)
RM_Set(name, addr) ==
    /\ rm' = rmSet(rm, name, addr)
    /\ rmLast' = [rmLast EXCEPT ![name] = addr]
    /\ rmGot' = NoLookup
    /\ rmStored' = NotStored
    /\ UNCHANGED rmFrame

\* rm.delete(name)
RM_Delete(name) ==
    /\ rm' = rmDelete(rm, name)
    /\ rmLast' = [rmLast EXCEPT ![name] = ZeroHash]
    /\ rmGot' = NoLookup
    /\ rmStored' = NotStored
    /\ UNCHANGED rmFrame

\* got := rm.lookup(name)
RM_Lookup(name) ==
    /\ rmGot' = [done |-> TRUE, name |-> name, addr |-> rmLookup(rm, name)]
    /\ UNCHANGED <<rm, rmLast, rmStored>>
    /\ UNCHANGED rmFrame

\* serialized := rm.storeroot_flatbuffer(); parsed := parse_storeroot(serialized)
RM_Store ==
    /\ rmStored' = [done |-> TRUE,
                    bytes |-> storeroot_flatbuffer(rm),
                    parsed |-> parse_storeroot(storeroot_flatbuffer(rm))]
    /\ UNCHANGED <<rm, rmLast, rmGot>>
    /\ UNCHANGED rmFrame

InitRefMap ==
    /\ MergeStart(ZeroMap, ZeroMap, ZeroMap, "conflict")
    /\ NoMutableMap
    /\ NoHistory
    /\ NoBuilder
    /\ NoRefMap
    /\ NoSession
    /\ NoMeta
    /\ NoIndexSet
    /\ NoWriter

NextRefMap ==
    \/ \E name \in RefNames, addr \in Hashes : RM_Set(name, addr)
    \/ \E name \in RefNames : RM_Delete(name)
    \/ \E name \in RefNames : RM_Lookup(name)
    \/ RM_Store

SpecRefMap == InitRefMap /\ [][NextRefMap]_vars

\* ------------------------------------------------------------ WriteSession

\* newTableEditor(ctx, tbl): writers on the rows and the indexes of tbl, the
\* auto-increment value of tbl, and a signal that is not closed.
newTableEditor(tbl) ==
    [open |-> TRUE, src |-> tbl, rows |-> tbl.rows, indexes |-> tbl.indexes,
     auto |-> tbl.auto, closed |-> FALSE]

\* TableWriter.checkClosed
checkClosed(ed) == IF ed.closed THEN "closed" ELSE "nil"

\* TableWriter.Insert: every index writer, then the primary writer.
TableWriterInsert(ed, row) ==
    [ed EXCEPT !.indexes = [i \in Indexes |-> @[i] \cup {row}],
               !.rows = @ \cup {row}]

\* TableWriter.SetAutoIncrementValue: ed.thing.Set(val)
SetAutoIncrementValue(ed, val) == [ed EXCEPT !.auto = val]

\* A Flush of a TableWriter that updates the rows alone.
TableWriterFlush_RowsOnly(ed, tbl) == [tbl EXCEPT !.rows = ed.rows]

\* TableWriter.Flush: UpdateRows with the primary writer's map, SetIndexData
\* with every index writer's map set in the table's index data, then
\* SetAutoIncrementValue with ed.thing.Peek().
TableWriterFlush(ed, tbl) ==
    [tbl EXCEPT !.rows = ed.rows,
                !.indexes = [i \in Indexes |-> ed.indexes[i]],
                !.auto = ed.auto]

\* WriteSession.Flush, when no step fails: for every editor, the table of its
\* name in root is replaced by the table the editor's Flush gives.
SessionFlush(editors, root) ==
    [n \in TableNames |-> IF editors[n].open
                          THEN TableWriterFlush(editors[n], root[n])
                          ELSE root[n]]

\* A Close that leaves the signal as it is.
TableWriterClose_KeepsOpen(ed, fails) == [ed |-> ed, err |-> "nil"]

\* TableWriter.Close, with the Close of the index writers of `fails`
\* returning an error: `if cerr != nil { err = nil }`, then
\* ed.signal.closed = true; return err.
TableWriterClose(ed, fails) ==
    [ed |-> [ed EXCEPT !.closed = TRUE],
     err |-> IF fails # {} THEN "nil" ELSE "nil"]

\* WriteSession.CloseEditors, the error returned: the cerr of an editor whose
\* Close returned one.
CloseEditorsErr(editors, fails) ==
    LET errs == { TableWriterClose(editors[n], fails[n]).err :
                     n \in { k \in TableNames : editors[k].open } }
    IN  IF errs \subseteq {"nil"} THEN "nil" ELSE CHOOSE e \in errs : e # "nil"

wsFrame == <<mergeVars, mutVars, histVars, tbVars, rmVars, twVars, ixVars, mvVars>>

\* es.CloseEditors(ctx): every editor is closed and deleted from the map; the
\* writers handed out before share the signal of the editor that was closed.
WS_CloseEditors ==
    \E fails \in [TableNames -> SUBSET Indexes] :
        LET names == { n \in TableNames : wsEditors[n].open }
        IN  /\ \A n \in TableNames \ names : fails[n] = {}
            /\ wsEditors' = [n \in TableNames |-> NoEditor]
            /\ wsDetached' =
                  [n \in TableNames |->
                      IF n \in names
                      THEN [held |-> TRUE,
                            closed |-> TableWriterClose(wsEditors[n], fails[n]).ed.closed]
                      ELSE wsDetached[n]]
            /\ wsRet' = [NoSessionCall EXCEPT
                            !.op = "closeEditors",
                            !.names = names,
                            !.failed = { n \in names : fails[n] # {} },
                            !.err = CloseEditorsErr(wsEditors, fails)]
            /\ UNCHANGED wsRoot
            /\ UNCHANGED wsFrame

\* edit.Close(ctx) by a caller, on the TableWriter of name the session holds.
WS_Close(name) ==
    \E fails \in SUBSET Indexes :
        /\ wsEditors[name].open
        /\ wsEditors' = [wsEditors EXCEPT ![name] = TableWriterClose(@, fails).ed]
        /\ wsRet' = [NoSessionCall EXCEPT
                        !.op = "close",
                        !.name = name,
                        !.failed = IF fails # {} THEN {name} ELSE {},
                        !.err = TableWriterClose(wsEditors[name], fails).err]
        /\ UNCHANGED <<wsRoot, wsDetached>>
        /\ UNCHANGED wsFrame

\* es.GetTableWriter(ctx, name, tbl), with tbl the table of name in the
\* caller's root; newTableEditor may fail.
WS_GetTableWriter(name) ==
    LET tbl == wsRoot[name]
        call == [NoSessionCall EXCEPT !.op = "get", !.name = name, !.tbl = tbl,
                                      !.was = wsEditors[name]]
    IN  /\ IF wsEditors[name].open
           THEN /\ wsRet' = call
                /\ UNCHANGED wsEditors
           ELSE \/ /\ wsEditors' = [wsEditors EXCEPT ![name] = newTableEditor(tbl)]
                   /\ wsRet' = call
                \/ /\ wsRet' = [call EXCEPT !.err = "store"]
                   /\ UNCHANGED wsEditors
        /\ UNCHANGED <<wsRoot, wsDetached>>
        /\ UNCHANGED wsFrame

\* es.Flush(ctx, root): GetTable, the editor's Flush or PutTable may fail for
\* any of the editors.
WS_Flush ==
    LET call == [NoSessionCall EXCEPT !.op = "flush"]
    IN  /\ \/ wsRet' = [call EXCEPT !.root = SessionFlush(wsEditors, wsRoot)]
           \/ /\ \E n \in TableNames : wsEditors[n].open
              /\ wsRet' = [call EXCEPT !.root = NilRoot, !.err = "store"]
        /\ UNCHANGED <<wsEditors, wsRoot, wsDetached>>
        /\ UNCHANGED wsFrame

\* An Insert through the TableWriter of name.
WS_Insert(name, row) ==
    LET ed == wsEditors[name]
        call == [NoSessionCall EXCEPT !.op = "insert", !.name = name,
                                      !.err = checkClosed(ed)]
    IN  /\ ed.open
        /\ wsRet' = call
        /\ wsEditors' = IF call.err = "nil"
                        THEN [wsEditors EXCEPT ![name] = TableWriterInsert(ed, row)]
                        ELSE wsEditors
        /\ UNCHANGED <<wsRoot, wsDetached>>
        /\ UNCHANGED wsFrame

\* A SetAutoIncrementValue through the TableWriter of name.
WS_SetAutoIncrementValue(name, val) ==
    /\ wsEditors[name].open
    /\ wsRet' = [NoSessionCall EXCEPT !.op = "setauto", !.name = name]
    /\ wsEditors' = [wsEditors EXCEPT ![name] = SetAutoIncrementValue(@, val)]
    /\ UNCHANGED <<wsRoot, wsDetached>>
    /\ UNCHANGED wsFrame

\* The schema of a table of the caller's root is altered.
WS_AlterTable(name, schema) ==
    /\ wsRoot[name].schema # schema
    /\ wsRoot' = [wsRoot EXCEPT ![name].schema = schema]
    /\ wsRet' = NoSessionCall
    /\ UNCHANGED <<wsEditors, wsDetached>>
    /\ UNCHANGED wsFrame

InitSession ==
    /\ MergeStart(ZeroMap, ZeroMap, ZeroMap, "conflict")
    /\ NoMutableMap
    /\ NoHistory
    /\ NoBuilder
    /\ NoRefMap
    /\ NoSession
    /\ NoMeta
    /\ NoIndexSet
    /\ NoWriter

NextSession ==
    \/ \E name \in TableNames : WS_GetTableWriter(name)
    \/ WS_Flush
    \/ \E name \in TableNames, row \in Rows : WS_Insert(name, row)
    \/ \E name \in TableNames, val \in AutoValues : WS_SetAutoIncrementValue(name, val)
    \/ \E name \in TableNames, schema \in Schemas : WS_AlterTable(name, schema)
    \/ WS_CloseEditors
    \/ \E name \in TableNames : WS_Close(name)

SpecSession == InitSession /\ [][NextSession]_vars

\* ------------------------------------------------------------- TableWriter

\* The orders in which `for _, dep := range ed.indexes` can visit the index
\* writers: Go ranges over a map in any order.
VisitOrders ==
    { o \in [1..Cardinality(WriterIndexes) -> WriterIndexes] :
         \A i, j \in DOMAIN o : i # j => o[i] # o[j] }

\* Where a call can fail: in an index writer, in the primary writer, nowhere.
FailPoints == WriterIndexes \cup {"primary", "none"}

\* The index writers the loop calls before it returns: all of them, or those
\* up to the one that fails.
Visited(order, failAt) ==
    IF failAt \in WriterIndexes
    THEN SubSeq(order, 1, CHOOSE i \in DOMAIN order : order[i] = failAt)
    ELSE order

\* index.Writer.Insert / Delete / Update on the rows a writer holds; the
\* statement calls leave the rows alone.
WriterApply(call, rows) ==
    CASE call.op = "insert" -> rows \cup {call.row}
      [] call.op = "delete" -> rows \ {call.row}
      [] call.op = "update" -> (rows \ {call.old}) \cup {call.row}
      [] OTHER -> rows

\* A TableWriter that writes the primary writer before the index writers.
TableWriterCall_PrimaryFirst(ed, call, order, failAt) ==
    [ed |-> [ed EXCEPT !.primary = IF failAt = "primary" THEN @
                                   ELSE WriterApply(call, @)],
     ret |-> [call EXCEPT !.err = failAt, !.calls = <<"primary">>,
                          !.failed = failAt]]

\* A TableWriter that does not look at its signal.
TableWriterCall_Unchecked(ed, call, order, failAt) ==
    LET seen == { order[i] : i \in DOMAIN Visited(order, failAt) }
    IN  [ed |-> [ed EXCEPT
                   !.indexes = [i \in WriterIndexes |->
                                   IF i \in seen /\ i # failAt
                                   THEN WriterApply(call, @[i]) ELSE @[i]],
                   !.primary = IF failAt = "none" THEN WriterApply(call, @) ELSE @],
         ret |-> [call EXCEPT
                   !.err = IF failAt = "none" THEN "nil" ELSE failAt,
                   !.calls = IF failAt \in WriterIndexes
                             THEN Visited(order, failAt)
                             ELSE Append(order, "primary"),
                   !.failed = failAt]]

\* TableWriter.Insert, Delete, Update, DiscardChanges, StatementComplete:
\* checkClosed, then the call on each index writer, returning at the first
\* error, then the call on the primary writer. A writer that returns an error
\* keeps its rows.
TableWriterCall(ed, call, order, failAt) ==
    IF checkClosed(ed) # "nil"
    THEN [ed |-> ed, ret |-> [call EXCEPT !.err = checkClosed(ed)]]
    ELSE LET seen == { order[i] : i \in DOMAIN Visited(order, failAt) }
         IN  [ed |-> [ed EXCEPT
                        !.indexes = [i \in WriterIndexes |->
                                        IF i \in seen /\ i # failAt
                                        THEN WriterApply(call, @[i]) ELSE @[i]],
                        !.primary = IF failAt = "none" THEN WriterApply(call, @) ELSE @],
              ret |-> [call EXCEPT
                        !.err = IF failAt = "none" THEN "nil" ELSE failAt,
                        !.calls = IF failAt \in WriterIndexes
                                  THEN Visited(order, failAt)
                                  ELSE Append(order, "primary"),
                        !.failed = failAt]]

twFrame == <<mergeVars, mutVars, histVars, tbVars, rmVars, wsVars, ixVars, mvVars>>

\* One call of tw, the writers visited in some order and failing somewhere
\* or nowhere.
TW_Call(call) ==
    \E order \in VisitOrders, failAt \in FailPoints :
        /\ tw' = TableWriterCall(tw, call, order, failAt).ed
        /\ twRet' = TableWriterCall(tw, call, order, failAt).ret
        /\ UNCHANGED twFrame

TW_Insert(row) == TW_Call([NoWriterCall EXCEPT !.op = "insert", !.row = row])

TW_Delete(row) == TW_Call([NoWriterCall EXCEPT !.op = "delete", !.row = row])

TW_Update(old, new) ==
    TW_Call([NoWriterCall EXCEPT !.op = "update", !.old = old, !.row = new])

TW_DiscardChanges == TW_Call([NoWriterCall EXCEPT !.op = "discard"])

TW_StatementComplete == TW_Call([NoWriterCall EXCEPT !.op = "complete"])

\* StatementBegin: every index writer's StatementBegin, the signal not looked at.
TW_StatementBegin ==
    \E order \in VisitOrders :
        /\ twRet' = [NoWriterCall EXCEPT !.op = "begin", !.calls = order]
        /\ UNCHANGED tw
        /\ UNCHANGED twFrame

\* Close: every index writer's Close, some of them failing, then the signal.
TW_Close ==
    \E order \in VisitOrders, fails \in SUBSET WriterIndexes :
        /\ tw' = TableWriterClose(tw, fails).ed
        /\ twRet' = [NoWriterCall EXCEPT
                        !.op = "close",
                        !.calls = order,
                        !.failed = IF fails = {} THEN "none" ELSE CHOOSE i \in fails : TRUE,
                        !.err = TableWriterClose(tw, fails).err]
        /\ UNCHANGED twFrame

InitWriter ==
    /\ MergeStart(ZeroMap, ZeroMap, ZeroMap, "conflict")
    /\ NoMutableMap
    /\ NoHistory
    /\ NoBuilder
    /\ NoRefMap
    /\ NoSession
    /\ NoMeta
    /\ NoIndexSet
    /\ NoWriter

NextWriter ==
    \/ \E row \in WriterRows : TW_Insert(row)
    \/ \E row \in WriterRows : TW_Delete(row)
    \/ \E old, new \in WriterRows : TW_Update(old, new)
    \/ TW_DiscardChanges
    \/ TW_StatementComplete
    \/ TW_StatementBegin
    \/ TW_Close

SpecWriter == InitWriter /\ [][NextWriter]_vars

\* ---------------------------------------------------------------- IndexSet

\* RefFromIndex: the index's value is written and the ref to it, which holds
\* the value's hash, returned.
RefFromIndex(idx) == [target |-> idx]

\* IndexFromRef: the value the ref targets, read back from the store.
IndexFromRef(ref) == ref.target

\* What can fail in the value store during a call.
StoreFailures == {"none", "write", "edit", "get", "read"}

\* nomsIndexSet.GetIndex: MaybeGet on the map; `if !ok`, which is also what
\* a failed MaybeGet gives, the error is the not-found error; then
\* IndexFromRef.
GetIndex(s, name, fail) ==
    LET ok == s[name] # ZeroHash /\ fail # "get"
    IN  IF ~ok THEN [got |-> ZeroHash, err |-> "not found"]
        ELSE IF fail = "read" THEN [got |-> ZeroHash, err |-> "store"]
        ELSE [got |-> IndexFromRef([target |-> s[name]]), err |-> "nil"]

\* nomsIndexSet.PutIndex: RefFromIndex, then s.indexes.Edit().Set(name,
\* ref).Map(ctx) in a new nomsIndexSet; (nil, err) when either fails.
PutIndex(s, name, idx, fail) ==
    IF fail \in {"write", "edit"}
    THEN [ok |-> FALSE, set |-> EmptyIndexSet, err |-> "store"]
    ELSE [ok |-> TRUE,
          set |-> [s EXCEPT ![name] = RefFromIndex(idx).target],
          err |-> "nil"]

\* A DropIndex that returns the empty IndexSet.
DropIndex_Clears(s, name, fail) ==
    [ok |-> TRUE, set |-> EmptyIndexSet, err |-> "nil"]

\* nomsIndexSet.DropIndex: s.indexes.Edit().Remove(name).Map(ctx) in a new
\* nomsIndexSet; (nil, err) when it fails.
DropIndex(s, name, fail) ==
    IF fail = "edit"
    THEN [ok |-> FALSE, set |-> EmptyIndexSet, err |-> "store"]
    ELSE [ok |-> TRUE, set |-> [s EXCEPT ![name] = ZeroHash], err |-> "nil"]

ixFrame == <<mergeVars, mutVars, histVars, tbVars, rmVars, wsVars, twVars, mvVars>>

\* s.PutIndex(ctx, name, idx): the receiver is a value, the map it holds is
\* not written.
IX_PutIndex(name, idx) ==
    \E fail \in {"none", "write", "edit"} :
        LET res == PutIndex(ixSet, name, idx, fail)
        IN  /\ ixRet' = [NoIndexCall EXCEPT !.op = "put", !.name = name,
                                           !.hash = idx, !.ok = res.ok,
                                           !.set = res.set, !.err = res.err]
            /\ UNCHANGED ixSet
            /\ UNCHANGED ixFrame

\* s.DropIndex(ctx, name)
IX_DropIndex(name) ==
    \E fail \in {"none", "edit"} :
        LET res == DropIndex(ixSet, name, fail)
        IN  /\ ixRet' = [NoIndexCall EXCEPT !.op = "drop", !.name = name,
                                           !.ok = res.ok, !.set = res.set,
                                           !.err = res.err]
            /\ UNCHANGED ixSet
            /\ UNCHANGED ixFrame

\* s.GetIndex(ctx, sch, name), sch having an index of the name.
IX_GetIndex(name) ==
    \E fail \in {"none", "get", "read"} :
        LET res == GetIndex(ixSet, name, fail)
        IN  /\ ixRet' = [NoIndexCall EXCEPT !.op = "get", !.name = name,
                                           !.got = res.got, !.err = res.err]
            /\ UNCHANGED ixSet
            /\ UNCHANGED ixFrame

\* The caller goes on with the IndexSet the latest PutIndex or DropIndex
\* returned.
IX_Use ==
    /\ ixRet.op \in {"put", "drop"}
    /\ ixRet.ok
    /\ ixSet' = ixRet.set
    /\ ixRet' = [NoIndexCall EXCEPT !.op = "use"]
    /\ UNCHANGED ixFrame

InitIndexSet ==
    /\ MergeStart(ZeroMap, ZeroMap, ZeroMap, "conflict")
    /\ NoMutableMap
    /\ NoHistory
    /\ NoBuilder
    /\ NoRefMap
    /\ NoSession
    /\ NoMeta
    /\ NoWriter
    /\ NoIndexSet

NextIndexSet ==
    \/ \E name \in IndexNames, idx \in IndexHashes : IX_PutIndex(name, idx)
    \/ \E name \in IndexNames : IX_DropIndex(name)
    \/ \E name \in IndexNames : IX_GetIndex(name)
    \/ IX_Use

SpecIndexSet == InitIndexSet /\ [][NextIndexSet]_vars

\* --------------------------------------------------------------- metaValue

\* The counts a byte string of uint48Size bytes can hold: 2^48 in the
\* program.
MaxUint48 == ByteRadix ^ uint48Size

\* The counts given to newMetaValue: those that fit and as many that do not.
Counts == 0..(2 * MaxUint48 - 1)

\* The hashes ns.Write returns, and those given to newMetaValue: a hash.Hash
\* is a byte array, which ref[:] and hash.New copy as it is.
NodeHashes == Hashes

\* A WriteUint48 that writes the most significant byte first.
WriteUint48_BigEndian(u) ==
    [i \in 1..uint48Size |-> (u \div (ByteRadix ^ (uint48Size - i))) % ByteRadix]

\* val.WriteUint48(buf, u): the uint48Size low bytes of u, least significant
\* first; a u that does not fit is taken to lose its high bytes.
WriteUint48(u) ==
    [i \in 1..uint48Size |-> (u \div (ByteRadix ^ (i - 1))) % ByteRadix]

RECURSIVE ReadUintFrom(_, _)
ReadUintFrom(bytes, i) ==
    IF i > Len(bytes) THEN 0
    ELSE bytes[i] * (ByteRadix ^ (i - 1)) + ReadUintFrom(bytes, i + 1)

\* val.ReadUint48(buf)
ReadUint48(bytes) == ReadUintFrom(bytes, 1)

\* Tuple.GetField(i) of a tuple of non-NULL fields.
GetField(tup, i) == tup[i + 1]

\* newMetaValue(pool, count, ref): NewTuple(pool, cnt[:], ref[:])
newMetaValue(count, ref) == <<WriteUint48(count), ref>>

\* metaValue.GetCumulativeCount
GetCumulativeCount(mt) == ReadUint48(GetField(mt, metaValueCountIdx))

\* metaValue.GetRef: hash.New(ref)
GetRef(mt) == GetField(mt, metaValueRefIdx)

RECURSIVE SumCounts(_, _)
\* The sum of the cumulative counts of the meta-values among items, from
\* position i on.
SumCounts(items, i) ==
    IF i > Len(items) THEN 0
    ELSE GetCumulativeCount(items[i]) + SumCounts(items, i + 2)

\* Node.cumulativeCount of makeProllyNode(pool, level, items...): the number
\* of pairs of a leaf, the sum of the children's counts above.
cumulativeCount(level, items) ==
    IF level = 0 THEN Len(items) \div 2 ELSE SumCounts(items, 2)

\* writeNewChild(ctx, ns, level, items...), ns.Write returning ref or failing.
writeNewChild(level, items, ref, fails) ==
    LET lastKey == items[Len(items) - 1]
        cnt == cumulativeCount(level, items)
    IN  IF fails
        THEN [cnt |-> cnt, pair |-> ZeroPair, err |-> "store"]
        ELSE [cnt |-> cnt, pair |-> <<lastKey, newMetaValue(cnt, ref)>>,
              err |-> "nil"]

\* The items of a node: the keys and values of pairs, alternating.
RECURSIVE ItemsOf(_)
ItemsOf(pairs) ==
    IF pairs = <<>> THEN <<>>
    ELSE <<pairs[1][1], pairs[1][2]>> \o ItemsOf(Tail(pairs))

mvFrame == <<mergeVars, mutVars, histVars, tbVars, rmVars, wsVars, twVars, ixVars>>

\* mt := newMetaValue(pool, count, ref), on a count and a ref of the caller's.
MV_NewMetaValue(count, ref) ==
    /\ mvRet = NoMetaCall
    /\ mvChildren = <<>>
    /\ mvRet' = [NoMetaCall EXCEPT !.op = "meta", !.count = count, !.ref = ref,
                                  !.mt = newMetaValue(count, ref)]
    /\ UNCHANGED mvChildren
    /\ UNCHANGED mvFrame

\* writeNewChild(ctx, ns, level, items...) for the items `level` and `items`.
MV_Write(level, items, isLeaf) ==
    \E ref \in NodeHashes, fails \in BOOLEAN :
        LET res == writeNewChild(level, items, ref, fails)
        IN  /\ mvRet' = [NoMetaCall EXCEPT !.op = "child", !.level = level,
                                          !.items = items, !.ref = ref,
                                          !.cnt = res.cnt, !.pair = res.pair,
                                          !.err = res.err]
            /\ mvChildren' = IF fails THEN mvChildren
                             ELSE IF isLeaf THEN Append(mvChildren, res.pair)
                             ELSE <<>>

\* A leaf is written from pairs whose keys follow those of the leaves
\* written before.
MV_WriteLeaf(pairs) ==
    /\ pairs # <<>>
    /\ Len(mvChildren) < MaxChildren
    /\ mvChildren # <<>> => mvChildren[Len(mvChildren)][1] < pairs[1][1]
    /\ MV_Write(0, ItemsOf(pairs), TRUE)
    /\ UNCHANGED mvFrame

\* The parent of the nodes written is written from their meta-pairs.
MV_WriteParent ==
    /\ mvChildren # <<>>
    /\ MV_Write(1, ItemsOf(mvChildren), FALSE)
    /\ UNCHANGED mvFrame

\* The nodes written are dropped; the next tree starts.
MV_Reset ==
    /\ mvChildren # <<>>
    /\ mvChildren' = <<>>
    /\ mvRet' = NoMetaCall
    /\ UNCHANGED mvFrame

InitMeta ==
    /\ MergeStart(ZeroMap, ZeroMap, ZeroMap, "conflict")
    /\ NoMutableMap
    /\ NoHistory
    /\ NoBuilder
    /\ NoRefMap
    /\ NoSession
    /\ NoIndexSet
    /\ NoWriter
    /\ NoMeta

NextMeta ==
    \/ \E count \in Counts, ref \in NodeHashes : MV_NewMetaValue(count, ref)
    \/ \E pairs \in MapsOver(MaxKey, Values) : MV_WriteLeaf(pairs)
    \/ MV_WriteParent
    \/ MV_Reset

SpecMeta == InitMeta /\ [][NextMeta]_vars

\* ------------------------------------------------------------------ claims

\* C1: with the context never cancelled and the node store never failing,
\* ThreeWayMerge returns, for every base, left, right and resolver.
C1_MergeTerminates == <>(twm = "returned" \/ cancelled \/ storeFailed)

\* The keys both sides changed, and those they changed to different results.
BothChanged == { k \in Keys : ValueOf(left, k) # ValueOf(base, k)
                              /\ ValueOf(right, k) # ValueOf(base, k) }
ConflictKeys == { k \in BothChanged : ValueOf(left, k) # ValueOf(right, k) }

\* The value C2 gives key k in the merged map.
MergedValue(k) ==
    IF ValueOf(right, k) # ValueOf(base, k) /\ ValueOf(left, k) = ValueOf(base, k)
    THEN ValueOf(right, k)
    ELSE ValueOf(left, k)

\* C2: when no key was changed to different results on the two sides, and
\* nothing is cancelled and nothing fails, ThreeWayMerge returns the map that
\* holds right's value for the keys only right changed and left's value for
\* every other key.
C2_MergedMap ==
    (ConflictKeys = {}) =>
        <>(\/ cancelled
           \/ storeFailed
           \/ /\ twm = "returned"
              /\ retErr = "nil"
              /\ \A k \in Keys : ValueOf(retMap, k) = MergedValue(k))

\* C3: when both sides changed a key to different results and the resolver
\* returns ok = false, ThreeWayMerge (nothing cancelled, nothing failing)
\* returns, reports a conflict on the key, and the merged map has left's
\* value for it.
C3_ConflictReported ==
    (cb = "conflict" /\ ConflictKeys # {}) =>
        <>(\/ cancelled
           \/ storeFailed
           \/ /\ twm = "returned"
              /\ ConflictKeys \subseteq ReportedConflicts
              /\ \A k \in ConflictKeys : ValueOf(retMap, k) = ValueOf(left, k))

MatFailedSenderBlocked ==
    /\ mret \notin {"running", "nil"}
    /\ spc \in SendPcs
    /\ Len(buf) = patchBufferSize

\* The sender has returned an error.
SenderFailed == sret \notin {"running", "nil"}

\* C5: if the materializer returns an error while the sender is blocked on a
\* full buffer, or if the sender returns an error, then ThreeWayMerge
\* eventually returns the zero Map with the error of the task that failed.
C5_FailureStopsOther ==
    /\ MatFailedSenderBlocked ~>
          (twm = "returned" /\ retErr = mret /\ retMap = ZeroMap)
    /\ SenderFailed ~>
          (twm = "returned" /\ retErr # "nil" /\ retErr \in {sret, mret}
           /\ retMap = ZeroMap)

\* C5's case: the node store failed under the materializer, the sender gave
\* up a send into the full buffer, and ThreeWayMerge returned the store's
\* error.
C5_Witness ==
    /\ twm = "returned"
    /\ ~cancelled
    /\ mret = "store"
    /\ sret = "canceled"
    /\ Len(buf) = patchBufferSize
    /\ retErr = "store"

\* C6: the buffer never holds more than patchBufferSize patches; the sender
\* leaves a sendPatch on a full buffer only when the context is done; and the
\* buffer changes only by the sender appending one patch in sendPatch or the
\* materializer taking the first patch.
C6_BoundedBuffer ==
    /\ [](Len(buf) <= patchBufferSize)
    /\ [][(spc \in SendPcs /\ Len(buf) = patchBufferSize /\ spc' # spc)
            => ctxDone]_vars
    /\ [][buf' # buf =>
            \/ /\ spc \in SendPcs /\ sret = "running"
               /\ Len(buf') = Len(buf) + 1
               /\ SubSeq(buf', 1, Len(buf)) = buf
               /\ UNCHANGED <<recv, mret>>
            \/ /\ mret = "running"
               /\ buf' = Tail(buf)
               /\ recv' = Append(recv, Head(buf))
               /\ UNCHANGED <<spc, sret>>]_vars

\* C6's case: the sender is blocked in sendPatch on a full buffer.
C6_Witness ==
    /\ spc \in SendPcs
    /\ Len(buf) = patchBufferSize
    /\ ~ctxDone
    /\ mret = "running"

\* C7: the patches the materializer takes from the buffer have strictly
\* ascending keys.
C7_AscendingPatches == Ascending(recv)

\* C8: Get and Has of a MutableMap answer from the overlay first: the value
\* of the latest Put of the key if it staged one, absent if it staged a
\* tombstone, and what the base map's Get gives if the key was never Put.
C8_OverlayFirst ==
    mut.live =>
        \A k \in MutKeys :
            IF k \in stagedKeys
            THEN IF stagedVal[k] # Nil
                 THEN MutGet(mut, k) = <<k, stagedVal[k]>> /\ MutHas(mut, k)
                 ELSE MutGet(mut, k) = <<Nil, Nil>> /\ ~MutHas(mut, k)
            ELSE MutGet(mut, k) = MapGet(orig, k) /\ (MutHas(mut, k) <=> MapHas(orig, k))

\* C8's case: a tombstone staged for a key of the base map, a value staged
\* for another key, and a key of the base map that was never Put.
C8_Witness ==
    /\ mut.live
    /\ \E k \in stagedKeys : stagedVal[k] = Nil /\ MapHas(orig, k)
    /\ \E k \in stagedKeys : stagedVal[k] # Nil
    /\ \E k \in MutKeys \ stagedKeys : MapHas(orig, k)

\* The staged keys that materialization adds to, and removes from, the base.
StagedInserts == { k \in stagedKeys : stagedVal[k] # Nil /\ ~MapHas(orig, k) }
StagedDeletes == { k \in stagedKeys : stagedVal[k] = Nil /\ MapHas(orig, k) }

\* C9: the materialized map counts the base map's pairs plus the staged
\* values of absent keys minus the staged tombstones of present keys, holds
\* the staged value of every key staged with one and has no key staged with a
\* tombstone.
C9_Materialized ==
    mat.done =>
        /\ Count(mat.m) = Count(orig) + Cardinality(StagedInserts)
                                      - Cardinality(StagedDeletes)
        /\ \A k \in stagedKeys :
              IF stagedVal[k] # Nil
              THEN MapGet(mat.m, k) = <<k, stagedVal[k]>> /\ MapHas(mat.m, k)
              ELSE MapGet(mat.m, k) = <<Nil, Nil>> /\ ~MapHas(mat.m, k)

\* C9's case: values staged for a key below the least and for a key above the
\* greatest key of the base map and a tombstone staged for a key of it, then
\* materialized.
C9_Witness ==
    /\ mat.done
    /\ orig # <<>>
    /\ \E k \in StagedInserts : k < orig[1][1]
    /\ \E k \in StagedInserts : k > orig[Len(orig)][1]
    /\ StagedDeletes # {}

\* C10: Put and Map leave the base map as it was: the MutableMap's base is
\* still the original Map, materializing changes neither it nor the overlay,
\* no step changes the original Map, and Mutate gives a MutableMap with an
\* empty overlay whose Get is the original Map's Get.
C10_BaseUnchanged ==
    /\ [](mut.live => (mut.m = orig /\ \A k \in MutKeys \ stagedKeys :
                                          MutGet(mut, k) = MapGet(orig, k)))
    /\ [][orig' = orig]_vars
    /\ [][(mat'.done /\ ~mat.done) => mut' = mut]_vars
    /\ [][(stagedKeys # {} /\ stagedKeys' = {}) =>
            (mut'.overlay = <<>> /\ \A k \in MutKeys :
                                      MutGet(mut', k) = MapGet(orig, k))]_vars

\* C10's case: edits were staged and materialized to a map that differs from
\* the original.
C10_Witness ==
    /\ mat.done
    /\ stagedKeys # {}
    /\ mat.m # orig
    /\ mut.m = orig

\* A tombstone is staged for every key of the non-empty base map, and no
\* value for any key.
AllKeysDeleted ==
    /\ orig # ZeroMap
    /\ KeysOf(orig) \subseteq stagedKeys
    /\ \A k \in stagedKeys : stagedVal[k] = Nil

\* C11: materializing tombstones for every key of a non-empty map gives a map
\* of Count 0 that has no key and is the map a chunker fed nothing builds
\* (the same root).
C11_DeleteAll ==
    (mat.done /\ AllKeysDeleted) =>
        /\ Count(mat.m) = 0
        /\ \A k \in MutKeys : ~MapHas(mat.m, k) /\ MapGet(mat.m, k) = <<Nil, Nil>>
        /\ mat.m = EmptyMap

\* C11's case: a base map of more than one pair, a tombstone staged for each
\* of its keys, materialized.
C11_Witness ==
    /\ mat.done
    /\ AllKeysDeleted
    /\ Count(orig) > 1
    /\ stagedKeys = KeysOf(orig)

\* Every pair of hPairs has been Put and materialized.
AllInserted ==
    /\ KeysOf(hOrder) = { k \in MutKeys : hPairs[k] # Nil }
    /\ hMut.overlay = <<>>

C13_OverlayBounded ==
    [][/\ Len(mut'.overlay) <= maxPending
       /\ (stagedKeys \subseteq stagedKeys' /\ Cardinality(stagedKeys') > maxPending
             /\ stagedKeys' # stagedKeys)
            => (putErr' = "overlayFull" /\ mut'.overlay = mut.overlay)]_vars

\* The non-nullable fields of the builder's descriptor.
NonNullable == { i \in Fields : ~tb.Desc[i] }

\* C14: a Build gives a tuple only if every non-nullable field was Put since
\* the previous Build (or since construction), and panics, giving no tuple,
\* otherwise.
C14_BuildNeedsPuts ==
    (tbRes.op = "build") =>
        /\ tbRes.panic <=> (\E i \in NonNullable : tbRes.written[i].null)
        /\ tbRes.panic => tbRes.tup = NullTuple

\* C15: a Build leaves the builder as NewTupleBuilder makes it, pos 0 and
\* every field nil, and the tuple it gives holds exactly the fields Put since
\* the previous Build, with the bytes Put, and NULL for every other field.
C15_BuildResets ==
    (tbRes.op = "build" /\ ~tbRes.panic) =>
        /\ tb.pos = 0
        /\ \A i \in Fields : tb.fields[i] = NilSlice
        /\ tbRes.tup = tbRes.written

C17_RefMapLookup ==
    /\ \A n \in RefNames : rmLookup(rm, n) = rmLast[n]
    /\ rmGot.done => rmGot.addr = rmLast[rmGot.name]
    /\ \A n \in RefNames : Cardinality(EntriesOf(rm, n)) <= 1

\* C17's case: the lookup of a name that was deleted, in a ref map that holds
\* a greater and a smaller name, one of them set twice.
C17_Witness ==
    /\ rmGot.done
    /\ rmGot.addr = ZeroHash
    /\ \E n \in RefNames : n < rmGot.name /\ rmLast[n] = 2
    /\ \E n \in RefNames : n > rmGot.name /\ rmLast[n] = 1
    /\ Len(rm) = 2

\* The one serialization of a mapping of names to hashes: the entries of the
\* names that have a hash, in the order of the names.
CanonicalBytes(mapping) ==
    LET named == { n \in RefNames : mapping[n] # ZeroHash }
        Below(n) == Cardinality({ k \in named : k < n })
        entries == [i \in 1..Cardinality(named) |->
                       LET n == CHOOSE k \in named : Below(k) = i - 1
                       IN  Entry(n, mapping[n])]
    IN  storeroot_flatbuffer(entries)

\* C18: the ref map parsed from the serialization of rm has as many entries
\* as rm and the same lookup for every name, serializes to the same bytes,
\* and the bytes are those of the mapping alone, whatever the order of the
\* sets and deletes that built it.
C18_RefMapRoundTrip ==
    rmStored.done =>
        /\ Len(rmStored.parsed) = Len(rm)
        /\ \A n \in RefNames : rmLookup(rmStored.parsed, n) = rmLookup(rm, n)
        /\ storeroot_flatbuffer(rmStored.parsed) = rmStored.bytes
        /\ rmStored.bytes = CanonicalBytes(rmLast)

\* C18's case: a ref map of more than one entry was serialized and parsed.
C18_Witness ==
    /\ rmStored.done
    /\ Len(rmStored.parsed) > 1
    /\ \E n \in RefNames : rmLast[n] = ZeroHash

\* C19: a GetTableWriter for a name whose editor is open, given a table whose
\* schema is not the schema of the table the editor was made from, leaves
\* the session with an editor made from the table given.
C19_ReloadsOnSchemaChange ==
    (/\ wsRet.op = "get"
     /\ wsRet.err = "nil"
     /\ wsRet.was.open
     /\ wsRet.was.src.schema # wsRet.tbl.schema) =>
        wsEditors[wsRet.name].src = wsRet.tbl

\* The table C20 gives the name n in the root returned by a Flush.
FlushedTable(n) ==
    IF wsEditors[n].open
    THEN [schema |-> wsRoot[n].schema,
          rows |-> wsEditors[n].rows,
          indexes |-> wsEditors[n].indexes,
          auto |-> wsEditors[n].auto]
    ELSE wsRoot[n]

\* C20: a Flush that returns no error returns the root in which the table of
\* every open editor has the editor's rows, indexes and auto-increment value
\* and every other table is the input root's; a Flush that fails returns the
\* nil root with the error; and a Flush leaves the editors as they were.
C20_FlushReplacesTables ==
    /\ [](wsRet.op = "flush" =>
            IF wsRet.err = "nil"
            THEN \A n \in TableNames : wsRet.root[n] = FlushedTable(n)
            ELSE wsRet.root = NilRoot)
    /\ [][wsRet'.op = "flush" => wsEditors' = wsEditors]_vars

\* C20's case: a Flush returned a root while one table had an editor with a
\* row inserted and the auto-increment value set, the table's schema had
\* been altered since the editor was made, and the other table had no
\* editor.
C20_Witness ==
    /\ wsRet.op = "flush"
    /\ wsRet.err = "nil"
    /\ wsEditors["t1"].open
    /\ wsEditors["t1"].rows # wsRoot["t1"].rows
    /\ wsEditors["t1"].auto # wsRoot["t1"].auto
    /\ wsEditors["t1"].src.schema # wsRoot["t1"].schema
    /\ ~wsEditors["t2"].open

\* C21: when CloseEditors has returned, whatever Close failed, the session
\* has no editor and every TableWriter it held is closed; a TableWriter
\* removed from the session is closed for good; and the GetTableWriter that
\* follows makes a new editor, open, from the table given.
C21_CloseEditorsClosesAll ==
    /\ [](wsRet.op = "closeEditors" =>
            /\ \A n \in TableNames : ~wsEditors[n].open
            /\ \A n \in wsRet.names : wsDetached[n].held /\ wsDetached[n].closed)
    /\ [](\A n \in TableNames : wsDetached[n].held => wsDetached[n].closed)
    /\ [][(wsRet.op = "closeEditors" /\ wsRet'.op = "get" /\ wsRet'.err = "nil") =>
            /\ wsEditors'[wsRet'.name].open
            /\ ~wsEditors'[wsRet'.name].closed
            /\ wsEditors'[wsRet'.name].src = wsRet'.tbl]_vars

\* C21's case: CloseEditors returned after closing the editors of both
\* tables, the Close of an index writer of one of them having failed.
C21_Witness ==
    /\ wsRet.op = "closeEditors"
    /\ wsRet.names = TableNames
    /\ wsRet.failed = {"t1"}

\* C28: a Close in which the Close of an index writer failed returns an
\* error, and so does a CloseEditors in which the Close of an editor failed.
C28_CloseReportsErrors ==
    (wsRet.op \in {"close", "closeEditors"} /\ wsRet.failed # {}) =>
        wsRet.err # "nil"

\* The calls of a TableWriter that look at its signal first.
GuardedOps == {"insert", "delete", "update", "discard", "complete"}

\* C27: once a TableWriter is closed it stays closed, and every Insert,
\* Delete, Update, DiscardChanges and StatementComplete on it returns the
\* 'table editor was closed' error, calls no writer and changes no rows.
C27_ClosedRejectsCalls ==
    /\ [][tw.closed => tw'.closed]_vars
    /\ [][(tw.closed /\ twRet'.op \in GuardedOps) =>
            /\ twRet'.err = "closed"
            /\ twRet'.calls = <<>>
            /\ tw' = tw]_vars

\* C27's case: an Update on a closed TableWriter holding rows was refused.
C27_Witness ==
    /\ tw.closed
    /\ tw.primary # {}
    /\ twRet.op = "update"
    /\ twRet.err = "closed"

\* The writers a call reached, as a set.
Called == { twRet.calls[i] : i \in DOMAIN twRet.calls }

\* C29: Insert, Delete and Update call the index writers before the primary
\* writer and stop at the first error: the primary writer is called last and
\* only after every index writer accepted the change; when an index writer
\* fails, its error is returned and the primary writer and the index writers
\* not yet visited keep their rows.
C29_IndexesBeforePrimary ==
    /\ []((twRet.op \in {"insert", "delete", "update"} /\ twRet.err # "closed") =>
            /\ \A i \in DOMAIN twRet.calls :
                  twRet.calls[i] = "primary" =>
                     /\ i = Len(twRet.calls)
                     /\ WriterIndexes \subseteq Called
                     /\ twRet.failed \notin WriterIndexes
            /\ twRet.failed \in WriterIndexes =>
                  /\ twRet.err = twRet.failed
                  /\ twRet.calls[Len(twRet.calls)] = twRet.failed
                  /\ "primary" \notin Called
            /\ twRet.failed \notin WriterIndexes => "primary" \in Called)
    /\ [][(twRet'.op \in {"insert", "delete", "update"}
             /\ twRet'.failed \in WriterIndexes) =>
            /\ tw'.primary = tw.primary
            /\ \A i \in WriterIndexes :
                  (\A j \in DOMAIN twRet'.calls : twRet'.calls[j] # i) =>
                     tw'.indexes[i] = tw.indexes[i]]_vars

\* C29's case: a Delete failed in the first index writer it visited, the
\* other index writer and the primary writer still holding the row.
C29_Witness ==
    /\ twRet.op = "delete"
    /\ twRet.failed = "b"
    /\ twRet.calls = <<"b">>
    /\ twRet.row \in tw.primary
    /\ twRet.row \in tw.indexes["a"]

\* C22: PutIndex and DropIndex return a new IndexSet and leave the receiver
\* as it was; in the set PutIndex returned, GetIndex of the name gives the
\* index that was put (same hash); in the set DropIndex returned, and for a
\* name never put, GetIndex gives the not-found error and no index; the
\* entries of the other names are those of the receiver.
C22_IndexSetPersistent ==
    /\ [][ixRet'.op \in {"put", "drop", "get"} => ixSet' = ixSet]_vars
    /\ []((ixRet.op = "put" /\ ixRet.ok) =>
            /\ GetIndex(ixRet.set, ixRet.name, "none") = [got |-> ixRet.hash, err |-> "nil"]
            /\ \A n \in IndexNames \ {ixRet.name} :
                  GetIndex(ixRet.set, n, "none") = GetIndex(ixSet, n, "none"))
    /\ []((ixRet.op = "drop" /\ ixRet.ok) =>
            /\ GetIndex(ixRet.set, ixRet.name, "none") = [got |-> ZeroHash, err |-> "not found"]
            /\ \A n \in IndexNames \ {ixRet.name} :
                  GetIndex(ixRet.set, n, "none") = GetIndex(ixSet, n, "none"))
    /\ []((ixRet.op = "get" /\ ixSet[ixRet.name] = ZeroHash) =>
            /\ ixRet.err = "not found"
            /\ ixRet.got = ZeroHash)
    /\ []((ixRet.op = "get" /\ ixRet.err = "nil") =>
            /\ ixRet.got = ixSet[ixRet.name]
            /\ ixRet.got # ZeroHash)

\* C22's case: DropIndex of a name returned a set without it, the receiver
\* still holding the indexes put under both names.
C22_Witness ==
    /\ ixRet.op = "drop"
    /\ ixRet.ok
    /\ ixRet.name = "i1"
    /\ ixSet["i1"] = 1
    /\ ixSet["i2"] = 2
    /\ ixRet.set["i2"] = 2

\* C23: whatever was Put, the overlay's mutation iterator yields the staged
\* edits in strictly ascending key order, each staged key once, with the
\* value (or tombstone) of the latest Put of the key.
C23_MutationsAscending ==
    mut.live =>
        LET edits == mutations(mut.overlay)
        IN  /\ \A i, j \in DOMAIN edits : i < j => edits[i][1] < edits[j][1]
            /\ { edits[i][1] : i \in DOMAIN edits } = stagedKeys
            /\ \A i \in DOMAIN edits : edits[i][2] = stagedVal[edits[i][1]]

\* C23's case: every key was Put, one of them as a tombstone and one with
\* a value.
C23_Witness ==
    /\ mut.live
    /\ stagedKeys = MutKeys
    /\ Len(mutations(mut.overlay)) = MaxMutKey
    /\ stagedVal[1] = Nil
    /\ stagedVal[MaxMutKey] # Nil

\* The Diff a stream holds for a key, Diff{} if it holds none.
DiffAt(diffs, k) ==
    IF \E i \in DOMAIN diffs : diffs[i].Key = k
    THEN diffs[CHOOSE i \in DOMAIN diffs : diffs[i].Key = k]
    ELSE ZeroDiff

\* The patch a key is to produce: right's value where right alone changed
\* the key, the resolved value where both sides changed it to different
\* results and the resolver accepted, none otherwise.
ExpectedPatch(k) ==
    LET l == DiffAt(ld, k)
        r == DiffAt(rd, k)
    IN  IF r = ZeroDiff THEN <<>>
        ELSE IF l = ZeroDiff THEN << <<k, r.To>> >>
        ELSE IF equalDiffVals(l, r) THEN <<>>
        ELSE IF Resolve(l, r).ok THEN << <<k, Resolve(l, r).diff.To>> >>
        ELSE <<>>

RECURSIVE ExpectedFrom(_)
ExpectedFrom(k) ==
    IF k > MaxKey THEN <<>> ELSE ExpectedPatch(k) \o ExpectedFrom(k + 1)

IsPrefix(a, b) == Len(a) <= Len(b) /\ SubSeq(b, 1, Len(a)) = a

\* C24: the patches sendPatches puts on the buffer are exactly one patch
\* (key, right.To) per diff of right whose key left did not change and one
\* patch (key, resolved.To) per key both sides changed to different results
\* and the resolver accepted: at any time a prefix of them, and all of them
\* when sendPatches has returned nil.
C24_PatchesExact ==
    /\ IsPrefix(sent, ExpectedFrom(1))
    /\ sret = "nil" => sent = ExpectedFrom(1)

\* C25: the resolver is called at most once per key, and only for a key
\* that both sides changed to different results.
C25_ResolverOncePerKey ==
    \A k \in Keys :
        /\ cbCalls[k] <= 1
        /\ cbCalls[k] > 0 => k \in ConflictKeys

====
